---- MODULE Spec2Model ----
(***************************************************************************)
(* A model of plugins/Sub-GHz/subGhz.py: the HackingUI animation state,    *)
(* the console log, the hardware probes and the menu / workflow state      *)
(* machine of PWNsubGhzEnhanced, driven by run().                          *)
(*                                                                         *)
(* Text is modelled as a sequence of tokens, so that the substring tests   *)
(* of execute_menu_item ("RF Scanner" in item) are computed, not assumed.  *)
(* A console entry is [ts, text, arg]: the timestamp prefix, the literal   *)
(* part of the message and the interpolated value (arg, a sequence).       *)
(***************************************************************************)
EXTENDS Integers, Sequences, FiniteSets, TLC

(***************************************************************************)
(* Bounds of the model                                                     *)
(***************************************************************************)
\* width in pixels of the strip of the display the rain is modelled on; one
\* matrix drop per 8 pixels
Width == 8
\* key events (other than None) that get_key_input delivers in one run
MaxKeys == 3
\* hardware calls of the workflows that fail or return nothing in one run
MaxFaults == 1
\* log calls made in the console-log specification
MaxAppends == 55
\* the last value of the clock that stamps console entries
MaxClock == 1

(***************************************************************************)
(* Program constants                                                       *)
(***************************************************************************)
Height == 64
LogCap == 50
SplashFrames == 4
TransmitFrames == 100
ScanIterations == 200
MessageFrames == 30
DropStride == 8

VARIABLES
    CC1101_AVAILABLE,   \* module-level flag, set by the import of core.cc1101
    RPITX_AVAILABLE,    \* module-level flag, set by the import of core.rpitx
    device,             \* HackingUI.device: TRUE when the display was opened
    blink_state,        \* HackingUI.blink_state
    matrix_drops,       \* HackingUI.matrix_drops: column -> [y, speed]
    drop_reset,         \* whether draw_matrix_rain has reset a drop so far
    running,            \* HackingUI.running
    console_lines,      \* PWNsubGhzEnhanced.console_lines
    fm,                 \* PWNsubGhzEnhanced.fm: "unset", "None" or "handle"
    transceiver,        \* PWNsubGhzEnhanced.transceiver: likewise
    main_menu,          \* PWNsubGhzEnhanced.main_menu: sequence of labels
    selected_item,      \* PWNsubGhzEnhanced.selected_item
    current_screen,     \* PWNsubGhzEnhanced.current_screen
    pc,                 \* where the single thread of control is
    frame,              \* loop variable of the frame loop pc is in
    key,                \* the value the last get_key_input call returned
    message,            \* show_message's message
    audio_files,        \* fm_radio_menu's audio_files
    selected_file,      \* fm_radio_menu's selected_file
    tx_file,            \* fm_transmit's audio_file
    scan_data,          \* rf_scanner's scan_data
    now,                \* the clock datetime.now() reads
    hw,                 \* calls made on the drivers since the last dispatch
    rendered,           \* frames drawn so far (draw_func calls), modulo 2
    keys,               \* key events delivered so far
    faults,             \* failed or empty hardware calls so far
    appended,           \* every entry ever passed to log, in order
    progress,           \* draw_progress_bar's progress, as last called
    fill_width          \* draw_progress_bar's fill_width, as last computed

vars == <<CC1101_AVAILABLE, RPITX_AVAILABLE, device, blink_state, matrix_drops, drop_reset,
          running, console_lines, fm, transceiver, main_menu, selected_item,
          current_screen, pc, frame, key, message, audio_files, selected_file,
          tx_file, scan_data, now, hw, rendered, keys, faults, appended,
          progress, fill_width>>

uiVars == <<device, blink_state, matrix_drops, drop_reset>>
configVars == <<CC1101_AVAILABLE, RPITX_AVAILABLE>>
handleVars == <<fm, transceiver>>
menuVars == <<main_menu, selected_item, current_screen>>
logVars == <<console_lines, appended>>
fmLocals == <<audio_files, selected_file, tx_file>>
envVars == <<now, keys, faults>>
barVars == <<progress, fill_width>>

(***************************************************************************)
(* Text                                                                    *)
(***************************************************************************)
\* Python's  needle in hay  on token sequences
Contains(needle, hay) ==
    \E i \in 0..(Len(hay) - Len(needle)) :
        \A j \in 1..Len(needle) : hay[i + j] = needle[j]

NoArg == <<>>

Entry(ts, text, arg) == [ts |-> ts, text |-> text, arg |-> arg]

(***************************************************************************)
(* ConsoleLog: PWNsubGhzEnhanced.log                                       *)
(***************************************************************************)
\* the mutant keeps the first 50 entries instead of the last 50
TrimLogKeepsOldest(lines) ==
    IF Len(lines) > LogCap THEN SubSeq(lines, 1, LogCap) ELSE lines

\* if len(self.console_lines) > 50: self.console_lines = self.console_lines[-50:]
TrimLog(lines) ==
    IF Len(lines) > LogCap
    THEN SubSeq(lines, Len(lines) - LogCap + 1, Len(lines))
    ELSE lines

\* log(message) at clock value ts
log(lines, ts, text, arg) == TrimLog(Append(lines, Entry(ts, text, arg)))

\* consecutive log calls; msgs is a sequence of <<text, arg>>
RECURSIVE LogAll(_, _, _)
LogAll(lines, ts, msgs) ==
    IF msgs = <<>> THEN lines
    ELSE LogAll(log(lines, ts, Head(msgs)[1], Head(msgs)[2]), ts, Tail(msgs))

Entries(ts, msgs) == [k \in 1..Len(msgs) |-> Entry(ts, msgs[k][1], msgs[k][2])]

\* the effect of the log calls of one step on the log (and on its history)
DoLog(msgs) ==
    /\ console_lines' = LogAll(console_lines, now, msgs)
    /\ appended' = appended \o Entries(now, msgs)

(***************************************************************************)
(* HackingUI                                                               *)
(***************************************************************************)
\* range(0, self.width, 8)
Columns == {x \in 0..(Width - 1) : x % DropStride = 0}

Drop(y, speed) == [y |-> y, speed |-> speed]

\* the values a drop is created with: randint(-20, 0), randint(1, 3)
NewDrops == {Drop(y, s) : y \in (-20)..0, s \in 1..3}

\* the values a drop is reset to: randint(-20, -5), randint(1, 3)
ResetDrops == {Drop(y, s) : y \in (-20)..(-5), s \in 1..3}

\* the mutant resets a drop only once it is two rows below the display
OffScreenLate(y) == y > Height + 1

\* if drop['y'] > self.height
OffScreen(y) == y > Height

\* one drop's update in draw_matrix_rain: the drops it may become
UpdatedDrop(d) ==
    IF OffScreen(d.y + d.speed)
    THEN ResetDrops
    ELSE {Drop(d.y + d.speed, d.speed)}

\* draw_matrix_rain: every drop is updated; the lists of drops that may result
draw_matrix_rain(drops) ==
    LET next == UNION {UpdatedDrop(drops[c]) : c \in Columns}
    IN  {f \in [Columns -> next] : \A c \in Columns : f[c] \in UpdatedDrop(drops[c])}

\* update_display(draw_func); rain: whether random.randint(0, 10) == 0.
\* Without a device it returns before draw_func is called. A drop's glyph and
\* the glitch rectangles are drawn and never read back; they are not modelled.
update_display(rain) ==
    IF device
    THEN /\ blink_state' = ~blink_state
         /\ IF rain
            THEN /\ matrix_drops' \in draw_matrix_rain(matrix_drops)
                 /\ drop_reset' = (drop_reset \/ \E c \in Columns :
                        OffScreen(matrix_drops[c].y + matrix_drops[c].speed))
            ELSE UNCHANGED <<matrix_drops, drop_reset>>
         /\ rendered' = (rendered + 1) % 2
         /\ device' = device
    ELSE UNCHANGED <<uiVars, rendered>>

(***************************************************************************)
(* Construction: module import, HackingUI.__init__, console_lines = []     *)
(***************************************************************************)
NoCalls == [rst |-> 0, rstfail |-> 0, arm |-> 0, recv |-> 0, recvfail |-> 0,
            bits |-> 0,
            setfreq |-> 0, play |-> 0, stop |-> 0]

\* everything but the import flags, the display and the drops
InitCommon ==
    /\ blink_state = FALSE
    /\ drop_reset = FALSE
    /\ running = TRUE
    /\ console_lines = <<>>
    /\ fm = "unset"
    /\ transceiver = "unset"
    /\ main_menu = <<>>
    /\ selected_item = 0
    /\ current_screen = "unset"
    /\ pc = "init_fm"
    /\ frame = 0
    /\ key = "None"
    /\ message = <<>>
    /\ audio_files = <<>>
    /\ selected_file = 0
    /\ tx_file = <<>>
    /\ scan_data = <<>>
    /\ now = 0
    /\ hw = NoCalls
    /\ rendered = 0
    /\ keys = 0
    /\ faults = 0
    /\ appended = <<>>
    /\ progress = 0
    /\ fill_width = 0

\* the whole program: either import may fail, the display may be missing
Init ==
    /\ CC1101_AVAILABLE \in BOOLEAN
    /\ RPITX_AVAILABLE \in BOOLEAN
    /\ device \in BOOLEAN
    /\ InitCommon
    /\ matrix_drops = [c \in Columns |-> Drop(0, 1)]

(***************************************************************************)
(* PWNsubGhzEnhanced.__init__: init_hardware, then the menu                *)
(***************************************************************************)
\* the mutant leaves the attribute unassigned when a probe fails
AbsentHandleUnset == "unset"

\* self.fm = None, self.transceiver = None
AbsentHandle == "None"

\* the FM probe of init_hardware, preceded by its first log call
InitHardwareFM ==
    /\ pc = "init_fm"
    /\ IF RPITX_AVAILABLE
       THEN \/ /\ fm' = "handle"
               /\ DoLog(<< <<"Initializing PWNsubGhz...", NoArg>>,
                           <<"FM transmitter ready", NoArg>> >>)
            \/ /\ fm' = AbsentHandle
               /\ DoLog(<< <<"Initializing PWNsubGhz...", NoArg>>,
                           <<"FM init failed:", <<"e">> >> >>)
       ELSE /\ fm' = AbsentHandle
            /\ DoLog(<< <<"Initializing PWNsubGhz...", NoArg>>,
                        <<"FM transmitter simulation mode", NoArg>> >>)
    /\ pc' = "init_cc1101"
    /\ UNCHANGED <<configVars, barVars, uiVars, running, transceiver, menuVars, frame, key,
                   message, fmLocals, scan_data, envVars, hw, rendered>>

\* the CC1101 probe of init_hardware
InitHardwareCC1101 ==
    /\ pc = "init_cc1101"
    /\ IF CC1101_AVAILABLE
       THEN \/ /\ transceiver' = "handle"
               /\ DoLog(<< <<"CC1101 ready @ Hz", <<"currentFreq">> >> >>)
            \/ /\ transceiver' = AbsentHandle
               /\ DoLog(<< <<"CC1101 failed:", <<"e">> >> >>)
       ELSE /\ transceiver' = AbsentHandle
            /\ DoLog(<< <<"CC1101 not available", NoArg>> >>)
    /\ pc' = "init_menu"
    /\ UNCHANGED <<configVars, barVars, uiVars, running, fm, menuVars, frame, key,
                   message, fmLocals, scan_data, envVars, hw, rendered>>

Disabled == <<"[DISABLED]">>

\* the mutant derives a gated label from the handle instead of the module flag
GatedLabelByHandle(name) ==
    IF transceiver = "handle" THEN name ELSE name \o Disabled

\* "RF Scanner" if CC1101_AVAILABLE else "RF Scanner [DISABLED]"
GatedLabel(name) ==
    IF CC1101_AVAILABLE THEN name ELSE name \o Disabled

FMRadioTransmit == <<"FM", "Radio", "Transmit">>
RFScanner == <<"RF", "Scanner">>
ReplayAttack == <<"Replay", "Attack">>
SetRFPower == <<"Set", "RF", "Power">>
SetFrequency == <<"Set", "Frequency">>
Exit == <<"Exit">>

\* self.main_menu = [...]
MainMenuItems ==
    << FMRadioTransmit, GatedLabel(RFScanner), GatedLabel(ReplayAttack),
       GatedLabel(SetRFPower), GatedLabel(SetFrequency), Exit >>

\* the rest of __init__: the menu, the selection, the screen
BuildMenu ==
    /\ pc = "init_menu"
    /\ main_menu' = MainMenuItems
    /\ selected_item' = 0
    /\ current_screen' = "menu"
    /\ pc' = "splash"
    /\ frame' = 0
    /\ UNCHANGED <<configVars, barVars, uiVars, running, logVars, handleVars, key, message,
                   fmLocals, scan_data, envVars, hw, rendered>>

(***************************************************************************)
(* run: show_splash, then the main loop                                    *)
(***************************************************************************)
\* one frame of show_splash. In the program's specification the random draw
\* for the rain never hits (update_display(FALSE)): the drops have no effect
\* on control, and SpecRain below covers them under both draws.
ShowSplashFrame ==
    /\ pc = "splash"
    /\ update_display(FALSE)
    /\ frame' = IF frame + 1 = SplashFrames THEN 0 ELSE frame + 1
    /\ pc' = IF frame + 1 = SplashFrames THEN "menu" ELSE "splash"
    /\ UNCHANGED <<configVars, barVars, running, logVars, handleVars, menuVars, key, message,
                   fmLocals, scan_data, envVars, hw>>

\* what get_key_input may return
KeyEvents == {"up", "down", "select", "back"}
NoKey == "None"

\* key = self.get_key_input(), returning k
Poll(k) ==
    /\ k \in KeyEvents => keys < MaxKeys
    /\ key' = k
    /\ keys' = IF k \in KeyEvents THEN keys + 1 ELSE keys

\* the mutant clamps at the top instead of wrapping
MenuUpClamped(sel, n) == IF sel = 0 THEN 0 ELSE sel - 1

\* (self.selected_item - 1) % len(self.main_menu)
MenuUp(sel, n) == (sel - 1) % n

\* (self.selected_item + 1) % len(self.main_menu)
MenuDown(sel, n) == (sel + 1) % n

\* the methods the class PWNsubGhzEnhanced defines
Methods == {"init_hardware", "log", "show_splash", "handle_input",
            "execute_menu_item", "fm_radio_menu", "fm_transmit", "rf_scanner",
            "show_message", "get_key_input", "run"}

\* execute_menu_item: what the if/elif chain does for item
Dispatch(item) ==
    IF Contains(<<"FM", "Radio">>, item) THEN "fm_radio_menu"
    ELSE IF Contains(RFScanner, item) /\ CC1101_AVAILABLE THEN "rf_scanner"
    ELSE IF Contains(ReplayAttack, item) /\ CC1101_AVAILABLE THEN "replay_attack"
    ELSE IF Contains(SetRFPower, item) /\ CC1101_AVAILABLE THEN "set_rf_power"
    ELSE IF Contains(SetFrequency, item) /\ CC1101_AVAILABLE THEN "set_frequency"
    ELSE IF Contains(Exit, item) THEN "exit"
    ELSE "pass"

\* item = self.main_menu[self.selected_item]
SelectedItem == main_menu[selected_item + 1]

\* one iteration of run's loop up to the call of handle_input, the key being k
RunIteration(k) ==
    /\ pc = "menu"
    /\ running
    /\ update_display(FALSE)
    /\ Poll(k)

\* the mutant's handle_input goes to the first item on back
RunIdleBackToTop ==
    \E k \in {NoKey, "back"} :
        /\ RunIteration(k)
        /\ selected_item' = IF k = "back" THEN 0 ELSE selected_item
        /\ UNCHANGED <<configVars, barVars, running, logVars, handleVars, main_menu,
                       current_screen, pc, frame, message, fmLocals, scan_data, now,
                       faults, hw>>

\* an iteration whose poll returns nothing, or back, which handle_input ignores
RunIdle ==
    \E k \in {NoKey, "back"} :
        /\ RunIteration(k)
        /\ UNCHANGED <<configVars, barVars, running, logVars, handleVars, menuVars, pc, frame,
                       message, fmLocals, scan_data, now, faults, hw>>

\* handle_input("up")
RunUp ==
    /\ RunIteration("up")
    /\ selected_item' = IF current_screen = "menu"
                        THEN MenuUp(selected_item, Len(main_menu))
                        ELSE selected_item
    /\ UNCHANGED <<configVars, barVars, running, logVars, handleVars, main_menu,
                   current_screen, pc, frame, message, fmLocals, scan_data, now,
                   faults, hw>>

\* handle_input("down")
RunDown ==
    /\ RunIteration("down")
    /\ selected_item' = IF current_screen = "menu"
                        THEN MenuDown(selected_item, Len(main_menu))
                        ELSE selected_item
    /\ UNCHANGED <<configVars, barVars, running, logVars, handleVars, main_menu,
                   current_screen, pc, frame, message, fmLocals, scan_data, now,
                   faults, hw>>

\* handle_input("select") up to the branch execute_menu_item takes
RunSelect(target) ==
    /\ RunIteration("select")
    /\ current_screen = "menu"
    /\ Dispatch(SelectedItem) = target

\* the mutant leaves the running flag set
ExitFlagKept == TRUE

\* self.ui.running = False
ExitFlag == FALSE

\* select on Exit
SelectExit ==
    /\ RunSelect("exit")
    /\ running' = ExitFlag
    /\ UNCHANGED <<configVars, barVars, logVars, handleVars, menuVars, pc, frame, message,
                   fmLocals, scan_data, now, faults, hw>>

\* select on an item no branch of execute_menu_item matches
SelectPass ==
    /\ RunSelect("pass")
    /\ UNCHANGED <<configVars, barVars, running, logVars, handleVars, menuVars, pc, frame,
                   message, fmLocals, scan_data, now, faults, hw>>

\* select on an item whose branch calls a method the class does not define:
\* the AttributeError leaves run, and main reports it and ends the process
SelectUndefined ==
    \E target \in {"replay_attack", "set_rf_power", "set_frequency"} :
        /\ RunSelect(target)
        /\ target \notin Methods
        /\ pc' = "crashed"
        /\ UNCHANGED <<configVars, barVars, running, logVars, handleVars, menuVars, frame,
                       message, fmLocals, scan_data, now, faults, hw>>

\* the loop's condition has become false: self.log("Shutting down...")
Shutdown ==
    /\ pc = "menu"
    /\ ~running
    /\ DoLog(<< <<"Shutting down...", NoArg>> >>)
    /\ pc' = "done"
    /\ UNCHANGED <<configVars, barVars, uiVars, running, handleVars, menuVars, frame, key,
                   message, fmLocals, scan_data, envVars, hw, rendered>>

\* the mutant never ends a frame loop by its count
LastFrameNever(i, n) == FALSE

\* for i in range(n) in a workflow: iteration i is the last one
LastFrame(i, n) == i + 1 = n

(***************************************************************************)
(* Hardware calls: each may raise; a failure uses up the fault budget      *)
(***************************************************************************)
CallOutcomes == {"ok", "raise"}
Raised(o) == IF o = "raise" THEN 1 ELSE 0

(***************************************************************************)
(* show_message                                                            *)
(***************************************************************************)
\* control is back in run's loop: the workflow's locals are gone
BackInMenu ==
    /\ pc' = "menu"
    /\ frame' = 0
    /\ message' = <<>>
    /\ audio_files' = <<>>
    /\ selected_file' = 0
    /\ tx_file' = <<>>
    /\ scan_data' = <<>>

\* show_message(text) begins
ShowMessage(text) ==
    /\ pc' = "message"
    /\ frame' = 0
    /\ message' = text

\* one frame of show_message; it polls no key
MessageFrame ==
    /\ pc = "message"
    /\ update_display(FALSE)
    /\ IF LastFrame(frame, MessageFrames)
       THEN BackInMenu
       ELSE /\ frame' = frame + 1
            /\ UNCHANGED <<pc, message, fmLocals, scan_data>>
    /\ UNCHANGED <<configVars, barVars, running, logVars, handleVars, menuVars, key,
                   envVars, hw>>

(***************************************************************************)
(* fm_radio_menu and fm_transmit                                           *)
(***************************************************************************)
\* audio_dir = "./fm_audio"
AudioDir == <<"./fm_audio">>

\* the mutant's message names no directory
NoWavMessageBare == <<"No", ".wav", "files", "found">>

\* "No .wav files found in ./fm_audio/"
NoWavMessage == <<"No", ".wav", "files", "found", "in", "./fm_audio", "/">>

\* f.endswith('.wav')
EndsWithWav(f) == Len(f) > 0 /\ f[Len(f)] = ".wav"

\* [f for f in os.listdir(audio_dir) if f.endswith('.wav')]
WavFiles(listing) == SelectSeq(listing, EndsWithWav)

\* what os.listdir(audio_dir) may return
Listings ==
    { <<>>,
      << <<"notes", ".txt">>, <<"old", ".wav", ".bak">> >>,
      << <<"a", ".wav">>, <<"notes", ".txt">> >>,
      << <<"a", ".wav">>, <<"notes", ".txt">>, <<"b", ".wav">> >> }

\* select on FM Radio Transmit: fm_radio_menu up to its file loop
SelectFMRadio ==
    /\ RunSelect("fm_radio_menu")
    /\ "fm_radio_menu" \in Methods
    /\ DoLog(<< <<"Starting FM Radio mode", NoArg>> >>)
    /\ hw' = NoCalls
    /\ \E listing \in Listings :
        /\ audio_files' = WavFiles(listing)
        /\ IF WavFiles(listing) = <<>>
           THEN ShowMessage(NoWavMessage)
           ELSE /\ pc' = "file_select"
                /\ frame' = 0
                /\ message' = message
    /\ selected_file' = 0
    /\ UNCHANGED <<configVars, barVars, running, handleVars, menuVars, tx_file, scan_data,
                   now, faults>>

\* (selected_file - 1) % len(audio_files)
FileUp(sel, n) == (sel - 1) % n

\* (selected_file + 1) % len(audio_files)
FileDown(sel, n) == (sel + 1) % n

\* the mutant always takes the first file
ChosenFirst(files, sel) == files[1]

\* audio_files[selected_file]
ChosenFile(files, sel) == files[sel + 1]

\* an iteration of the file loop whose key is none of select and back. The
\* loop is `while True` and keeps no counter: frame holds the parity of its
\* iterations, which tells an iteration from no step at all.
FileSelectMove ==
    /\ pc = "file_select"
    /\ update_display(FALSE)
    /\ \E k \in {NoKey, "up", "down"} :
        /\ Poll(k)
        /\ selected_file' =
              CASE k = "up" -> FileUp(selected_file, Len(audio_files))
                [] k = "down" -> FileDown(selected_file, Len(audio_files))
                [] OTHER -> selected_file
    /\ frame' = (frame + 1) % 2
    /\ UNCHANGED <<configVars, barVars, running, logVars, handleVars, menuVars, pc,
                   message, audio_files, tx_file, scan_data, now, faults, hw>>

\* select in the file loop: fm_transmit(audio_files[selected_file]) begins
FileSelectChoose ==
    /\ pc = "file_select"
    /\ update_display(FALSE)
    /\ Poll("select")
    /\ tx_file' = ChosenFile(audio_files, selected_file)
    /\ DoLog(<< <<"Transmitting:", ChosenFile(audio_files, selected_file)>> >>)
    /\ pc' = "transmit"
    /\ frame' = 0
    /\ UNCHANGED <<configVars, barVars, running, handleVars, menuVars, message, audio_files,
                   selected_file, scan_data, now, faults, hw>>

\* back in the file loop
FileSelectBack ==
    /\ pc = "file_select"
    /\ update_display(FALSE)
    /\ Poll("back")
    /\ BackInMenu
    /\ UNCHANGED <<configVars, barVars, running, logVars, handleVars, menuVars, now,
                   faults, hw>>

\* the mutant takes every frame for the first
FirstFrameAlways(i) == TRUE

\* if i == 0
FirstFrame(i) == i = 0

\* one iteration of fm_transmit's loop and, when it is the last, the code after
\* the loop. o1, o2, o3: what the assignment of freq, play and stop do.
TransmitFrame ==
    /\ pc = "transmit"
    /\ update_display(FALSE)
    /\ \E k \in KeyEvents \cup {NoKey}, o1, o2, o3 \in CallOutcomes :
        LET first == fm = "handle" /\ FirstFrame(frame)
            callsPlay == first /\ o1 = "ok"
            txError == (first /\ o1 = "raise") \/ (callsPlay /\ o2 = "raise")
            ending == k = "back" \/ LastFrame(frame, TransmitFrames)
            callsStop == ending /\ fm = "handle"
            used == Raised(o1) + Raised(o2) + Raised(o3)
        IN  /\ ~first => o1 = "ok"
            /\ ~callsPlay => o2 = "ok"
            /\ ~callsStop => o3 = "ok"
            /\ faults + used <= MaxFaults
            /\ faults' = faults + used
            /\ Poll(k)
            /\ hw' = [hw EXCEPT !.setfreq = @ + (IF first THEN 1 ELSE 0),
                                !.play = @ + (IF callsPlay THEN 1 ELSE 0),
                                !.stop = @ + (IF callsStop THEN 1 ELSE 0)]
            /\ DoLog((IF txError THEN << <<"FM TX error:", <<"e">> >> >> ELSE <<>>)
                     \o (IF ending THEN << <<"FM transmission stopped", NoArg>> >>
                         ELSE <<>>))
            /\ IF ending
               THEN BackInMenu
               ELSE /\ frame' = frame + 1
                    /\ UNCHANGED <<pc, message, fmLocals, scan_data>>
    /\ UNCHANGED <<configVars, barVars, running, handleVars, menuVars, now>>

(***************************************************************************)
(* rf_scanner                                                              *)
(***************************************************************************)
RadioMissingMessage == <<"CC1101", "not", "available">>

\* what rawRecv(10) returns when it returns bits
RecvBits == <<1, 0>>

\* the mutant arms the receiver whatever rst did
ArmCallsAlways(o1) == 1

\* the number of calls of setupRawRecieve, o1 being what rst did: the call is
\* reached only when rst returns
ArmCalls(o1) == IF o1 = "ok" THEN 1 ELSE 0

\* select on RF Scanner with the module imported: rf_scanner up to its loop.
\* o1, o2: what rst and setupRawRecieve do.
SelectScanner ==
    /\ RunSelect("rf_scanner")
    /\ "rf_scanner" \in Methods
    /\ IF transceiver # "handle"
       THEN /\ ShowMessage(RadioMissingMessage)
            /\ hw' = NoCalls
            /\ UNCHANGED <<logVars, scan_data, faults>>
       ELSE \E o1, o2 \in CallOutcomes :
            /\ o1 = "raise" => o2 = "ok"
            /\ faults + Raised(o1) + Raised(o2) <= MaxFaults
            /\ faults' = faults + Raised(o1) + Raised(o2)
            /\ hw' = [NoCalls EXCEPT !.rst = 1,
                                     !.rstfail = Raised(o1),
                                     !.arm = ArmCalls(o1)]
            /\ scan_data' = <<>>
            /\ frame' = 0
            /\ message' = message
            /\ IF o1 = "ok" /\ o2 = "ok"
               THEN /\ DoLog(<< <<"Starting RF scanner", NoArg>> >>)
                    /\ pc' = "scan"
               ELSE /\ DoLog(<< <<"Starting RF scanner", NoArg>>,
                                <<"Scanner error:", <<"e">> >> >>)
                    /\ pc' = "menu"
    /\ UNCHANGED <<configVars, barVars, running, handleVars, menuVars, fmLocals, now>>

\* the mutant appends the returned list as one element
ExtendAsAppend(data, bits) == Append(data, bits)

\* scan_data.extend(data)
Extend(data, bits) == data \o bits

\* len(scan_data)
Captured(data) == Len(data)

\* the mutant empties the buffer when rawRecv raises
ReceivedOrLost(data, o) ==
    CASE o = "bits" -> Extend(data, RecvBits)
      [] o = "raise" -> <<>>
      [] OTHER -> data

\* the buffer after one rawRecv: extended with the bits returned, and left as
\* it is when rawRecv returns nothing or raises
Received(data, o) == IF o = "bits" THEN Extend(data, RecvBits) ELSE data

\* one iteration of rf_scanner's loop and, when it is the last, the log call
\* after the loop. o: what rawRecv does.
ScanFrame ==
    /\ pc = "scan"
    /\ update_display(FALSE)
    /\ \E k \in KeyEvents \cup {NoKey}, o \in {"bits", "empty", "raise"} :
        LET data == Received(scan_data, o)
            ending == k = "back" \/ LastFrame(frame, ScanIterations)
        IN  /\ o # "bits" => faults < MaxFaults
            /\ faults' = IF o = "bits" THEN faults ELSE faults + 1
            /\ Poll(k)
            /\ hw' = [hw EXCEPT !.recv = @ + 1,
                                !.recvfail = @ + (IF o = "raise" THEN 1 ELSE 0),
                                !.bits = @ + (IF o = "bits" THEN Len(RecvBits) ELSE 0)]
            /\ IF ending
               THEN /\ DoLog(<< <<"Scan complete: bits captured",
                                  <<Captured(data)>> >> >>)
                    /\ BackInMenu
               ELSE /\ scan_data' = data
                    /\ frame' = frame + 1
                    /\ UNCHANGED <<pc, message, fmLocals, logVars>>
    /\ UNCHANGED <<configVars, barVars, running, handleVars, menuVars, now>>

(***************************************************************************)
(* The application                                                         *)
(***************************************************************************)
Next ==
    \/ InitHardwareFM
    \/ InitHardwareCC1101
    \/ BuildMenu
    \/ ShowSplashFrame
    \/ RunIdle
    \/ RunUp
    \/ RunDown
    \/ SelectExit
    \/ SelectPass
    \/ SelectUndefined
    \/ SelectFMRadio
    \/ SelectScanner
    \/ FileSelectMove
    \/ FileSelectChoose
    \/ FileSelectBack
    \/ TransmitFrame
    \/ MessageFrame
    \/ ScanFrame
    \/ Shutdown

Spec == Init /\ [][Next]_vars

\* the process keeps running: a loop that can take another iteration takes it
FairSpec == Spec /\ WF_vars(Next)

(***************************************************************************)
(* ConsoleLog on its own: any sequence of log calls, the clock advancing   *)
(***************************************************************************)
LogInit ==
    /\ CC1101_AVAILABLE = FALSE
    /\ RPITX_AVAILABLE = FALSE
    /\ device = FALSE
    /\ InitCommon
    /\ matrix_drops = [c \in Columns |-> Drop(0, 1)]

\* self.log(message)
LogCall ==
    /\ Len(appended) < MaxAppends
    /\ DoLog(<< <<"message", NoArg>> >>)
    /\ UNCHANGED <<configVars, barVars, uiVars, running, handleVars, menuVars, pc, frame, key,
                   message, fmLocals, scan_data, envVars, hw, rendered>>

\* a second passes
Tick ==
    /\ now < MaxClock
    /\ now' = now + 1
    /\ UNCHANGED <<configVars, barVars, uiVars, running, logVars, handleVars, menuVars, pc,
                   frame, key, message, fmLocals, scan_data, keys, faults, hw,
                   rendered>>

LogNext == LogCall \/ Tick

SpecLog == LogInit /\ [][LogNext]_vars

(***************************************************************************)
(* HackingUI on its own: any sequence of update_display calls              *)
(***************************************************************************)
\* HackingUI.__init__: one drop per column, at a random height and speed
RainInit ==
    /\ CC1101_AVAILABLE = FALSE
    /\ RPITX_AVAILABLE = FALSE
    /\ device \in BOOLEAN
    /\ InitCommon
    /\ matrix_drops \in [Columns -> NewDrops]

\* self.ui.update_display(draw_func), the rain drawn or not
RenderFrame ==
    /\ \E rain \in BOOLEAN : update_display(rain)
    /\ UNCHANGED <<configVars, barVars, running, logVars, handleVars, menuVars, pc, frame,
                   key, message, fmLocals, scan_data, envVars, hw>>

RainNext == RenderFrame

SpecRain == RainInit /\ [][RainNext]_vars

(***************************************************************************)
(* draw_progress_bar on its own: called with any percentage, in any order  *)
(***************************************************************************)
\* the width of the display: device.width of the sh1106, 128 without a device
DefaultWidth == 128
\* the outline is the rectangle from x = 10 to x = width - 10
OutlineLeft == 10
\* the fill is the rectangle from x = 11 to x = 11 + fill_width
FillLeft == 11
BarMargin == 22

OutlineRight(w) == w - OutlineLeft

\* the mutant takes the outline's width for the interior's
FillWidthOfOutline(w, p) == ((w - 2 * OutlineLeft) * p) \div 100

\* int((self.width-22) * (progress / 100)). The product is a float; for the
\* width 128 it is a whole number only at 0, 50 and 100, where progress / 100
\* is exact, so the truncation is the floor of the exact quotient.
FillWidth(w, p) == ((w - BarMargin) * p) \div 100

Percents == 0..100

\* self.ui.draw_progress_bar(draw, p, title)
DrawProgressBar ==
    /\ \E p \in Percents :
        /\ progress' = p
        /\ fill_width' = FillWidth(DefaultWidth, p)
    /\ UNCHANGED <<configVars, uiVars, running, logVars, handleVars, menuVars, pc,
                   frame, key, message, fmLocals, scan_data, envVars, hw, rendered>>

BarNext == DrawProgressBar

SpecBar == LogInit /\ [][BarNext]_vars

(***************************************************************************)
(* Claims                                                                  *)
(***************************************************************************)
Min(a, b) == IF a < b THEN a ELSE b

\* C1: after n log calls the console log holds exactly min(n, 50) entries,
\* and they are the last min(n, 50) entries appended, in the order appended.
C1_LogHoldsLastFifty ==
    LET n == Len(appended)
        m == Min(n, LogCap)
    IN  /\ Len(console_lines) = m
        /\ \A j \in 1..m : console_lines[j] = appended[n - m + j]

\* 55 entries were appended, the fifth and the sixth differ, 50 are held
C1_Witness ==
    /\ Len(appended) = 55
    /\ Len(console_lines) = 50
    /\ appended[5] # appended[6]
    /\ console_lines[1] = appended[6]

\* a step of run's loop in which get_key_input returned select
SelectStep ==
    /\ pc = "menu"
    /\ running
    /\ key' = "select"
    /\ keys' = keys + 1

\* the last entry of the console log, once there is one
LastEntry(lines) == lines[Len(lines)]

GatedItems == {RFScanner, ReplayAttack, SetRFPower, SetFrequency}

\* C2: once the menu is built, each radio-gated item is enabled (carries no
\* [DISABLED] mark) if and only if the transceiver handle was acquired.
C2_GatedItemsFollowHandle ==
    main_menu # <<>> =>
        \A i \in 1..Len(main_menu) :
            (\E g \in GatedItems : Contains(g, main_menu[i])) =>
                (~Contains(Disabled, main_menu[i]) <=> transceiver = "handle")

\* C3: whenever the transceiver handle is absent, select on the RF Scanner
\* item shows the message "CC1101 not available" and calls nothing on the radio.
C3_ScannerWithoutRadioShowsMessage ==
    [][(SelectStep /\ Contains(RFScanner, SelectedItem) /\ transceiver # "handle")
        => /\ pc' = "message"
           /\ message' = RadioMissingMessage
           /\ hw'.rst = 0 /\ hw'.arm = 0 /\ hw'.recv = 0]_vars

\* C4: select on a disabled item starts no workflow and calls no hardware,
\* and appends a "feature unavailable" entry to the console log.
C4_DisabledSelectIsLogged ==
    [][(SelectStep /\ Contains(Disabled, SelectedItem))
        => /\ pc' = "menu"
           /\ hw' = hw
           /\ main_menu' = main_menu
           /\ Len(appended') = Len(appended) + 1
           /\ LastEntry(appended').text = "feature unavailable"]_vars

\* C5: select on Exit clears the running flag; from then on the only step is
\* the end of the loop, which polls no key and appends the one entry
\* "Shutting down..." as the last thing the run does.
C5_ExitEndsLoop ==
    /\ [][(SelectStep /\ SelectedItem = Exit) => (~running' /\ pc' = "menu")]_vars
    /\ [][~running =>
            /\ pc = "menu" /\ pc' = "done"
            /\ key' = key /\ keys' = keys
            /\ appended' = Append(appended, Entry(now, "Shutting down...", NoArg))
            /\ LastEntry(console_lines') = Entry(now, "Shutting down...", NoArg)]_vars
    /\ [](pc = "done" => ~running /\ key = "select" /\ SelectedItem = Exit)

\* the loop has ended after select on Exit, reached by up from the first item
C5_Witness ==
    /\ pc = "done"
    /\ selected_item = 5
    /\ keys = 2
    /\ LastEntry(console_lines).text = "Shutting down..."

\* C6: the loop ends only through select on Exit: select on any other item
\* leaves the application in the menu with the running flag set, and no
\* error ever aborts the loop.
C6_LoopEndsOnlyByExit ==
    /\ pc # "crashed"
    /\ ~running => (key = "select" /\ SelectedItem = Exit)

\* C7: with no .wav entry in the audio directory, select on FM Radio Transmit
\* shows a message that contains the directory path; the dialog enters neither
\* the file loop nor the transmission, calls nothing on the FM driver, and
\* after its 30 frames control is back in the menu.
C7_NoWavShowsMessage ==
    /\ [][(SelectStep /\ SelectedItem = FMRadioTransmit /\ audio_files' = <<>>)
            => /\ pc' = "message"
               /\ frame' = 0
               /\ Contains(AudioDir, message')
               /\ hw' = NoCalls]_vars
    /\ [][pc = "message"
            => /\ hw' = hw
               /\ IF frame + 1 = MessageFrames
                  THEN pc' = "menu"
                  ELSE pc' = "message" /\ frame' = frame + 1 /\ message' = message]_vars
    /\ [](pc = "message" => (frame < MessageFrames /\ ENABLED MessageFrame))

\* the last frame of the dialog that names the audio directory
C7_Witness ==
    /\ pc = "message"
    /\ Contains(AudioDir, message)
    /\ frame = MessageFrames - 1
    /\ hw = NoCalls

\* C8: a scan that back does not interrupt calls rawRecv exactly 200 times;
\* the count logged when a scan completes is the number of bits those calls
\* returned, 400 when every call returned the two bits [1, 0].
C8_ScanLogsCapturedBits ==
    [][(pc = "scan" /\ pc' = "menu")
        => /\ LastEntry(console_lines').text = "Scan complete: bits captured"
           /\ LastEntry(console_lines').arg = <<hw'.bits>>
           /\ key' # "back" => hw'.recv = ScanIterations
           /\ (key' # "back" /\ hw'.bits = Len(RecvBits) * hw'.recv)
                  => LastEntry(console_lines').arg = <<400>>]_vars

\* a scan has run its 200 iterations, every call returned two bits
C8_Witness ==
    /\ pc = "menu"
    /\ hw.recv = 200
    /\ hw.bits = 400
    /\ LastEntry(console_lines) = Entry(now, "Scan complete: bits captured", <<400>>)

\* C9: in the menu, up moves the selection to (index - 1) mod length and down
\* to (index + 1) mod length, and the selection is always an index of the menu.
C9_SelectionWraps ==
    /\ [](main_menu # <<>> => selected_item \in 0..(Len(main_menu) - 1))
    /\ [][(pc = "menu" /\ running /\ keys' = keys + 1 /\ key' = "up")
            => selected_item' = (selected_item + Len(main_menu) - 1) % Len(main_menu)]_vars
    /\ [][(pc = "menu" /\ running /\ keys' = keys + 1 /\ key' = "down")
            => selected_item' = (selected_item + 1) % Len(main_menu)]_vars

\* up from the first item and then down from the last: both ends wrapped
C9_Witness ==
    /\ pc = "menu"
    /\ selected_item = 0
    /\ key = "down"
    /\ keys = 2
    /\ hw = NoCalls
    /\ Len(appended) = 3

\* C10: every drop's y is within [-20, height]; an update that takes y above
\* height resets the drop, in that update, to a y in [-20, -5] and a speed in
\* [1, 3]; any other update adds the speed to y.
C10_DropsStayInRange ==
    /\ [](\A c \in Columns : matrix_drops[c].y \in (-20)..Height)
    /\ [][matrix_drops' # matrix_drops =>
            \A c \in Columns :
                IF matrix_drops[c].y + matrix_drops[c].speed > Height
                THEN /\ matrix_drops'[c].y \in (-20)..(-5)
                     /\ matrix_drops'[c].speed \in 1..3
                ELSE /\ matrix_drops'[c].y = matrix_drops[c].y + matrix_drops[c].speed
                     /\ matrix_drops'[c].speed = matrix_drops[c].speed]_vars

\* after a reset, a drop has fallen to the bottom row, which is still on screen
C10_Witness ==
    /\ drop_reset
    /\ \E c \in Columns :
        /\ matrix_drops[c].y = Height
        /\ matrix_drops[c].speed = 3

\* C11: for percent in 0..100 the fill width is floor((width - 22) * percent
\* / 100); it does not decrease as percent grows, is 0 at 0 and the width of
\* the bar's interior at 100, and the fill never reaches past the outline.
C11_FillWidthMonotone ==
    /\ [](fill_width = ((DefaultWidth - 22) * progress) \div 100)
    /\ [](progress = 0 => fill_width = 0)
    /\ [](progress = 100 => fill_width = OutlineRight(DefaultWidth) - OutlineLeft - 2)
    /\ [](FillLeft + fill_width < OutlineRight(DefaultWidth))
    /\ [][progress' >= progress => fill_width' >= fill_width]_vars

\* the bar drawn full
C11_Witness ==
    /\ progress = 100
    /\ fill_width = 106

\* an entry with this text has been logged
Logged(text) == \E i \in 1..Len(appended) : appended[i].text = text

\* C12: the FM probe and the radio probe are both attempted whatever the
\* other does; a failed probe leaves its handle None and logs the cause; the
\* radio probe can succeed or fail whatever the FM probe did; and the
\* initialization goes on to the menu and the splash screen.
C12_ProbesAreIndependent ==
    /\ [](pc # "init_fm" =>
            /\ fm \in {"None", "handle"}
            /\ fm = "handle" => (RPITX_AVAILABLE /\ Logged("FM transmitter ready"))
            /\ fm = "None" => Logged(IF RPITX_AVAILABLE THEN "FM init failed:"
                                     ELSE "FM transmitter simulation mode"))
    /\ [](pc \notin {"init_fm", "init_cc1101"} =>
            /\ transceiver \in {"None", "handle"}
            /\ transceiver = "handle" => (CC1101_AVAILABLE /\ Logged("CC1101 ready @ Hz"))
            /\ transceiver = "None" => Logged(IF CC1101_AVAILABLE THEN "CC1101 failed:"
                                              ELSE "CC1101 not available"))
    /\ [](pc = "init_cc1101" =>
            /\ ENABLED InitHardwareCC1101
            /\ CC1101_AVAILABLE =>
                  /\ ENABLED (InitHardwareCC1101 /\ transceiver' = "handle")
                  /\ ENABLED (InitHardwareCC1101 /\ transceiver' = "None"))
    /\ [][pc = "init_fm" => (pc' = "init_cc1101" /\ transceiver' = transceiver)]_vars
    /\ [][pc = "init_cc1101" => (pc' = "init_menu" /\ fm' = fm)]_vars
    /\ [][pc = "init_menu" => pc' = "splash"]_vars

\* the FM probe raised and the radio was acquired all the same
C12_Witness ==
    /\ pc = "splash"
    /\ RPITX_AVAILABLE
    /\ fm = "None"
    /\ transceiver = "handle"
    /\ Logged("FM init failed:")
    /\ Logged("CC1101 ready @ Hz")

\* the screens of the workflows select starts from the main menu
Workflows == {"file_select", "transmit", "scan", "message"}

\* the workflows that a frame count bounds, with their counts
Budget ==
    [message |-> MessageFrames, transmit |-> TransmitFrames, scan |-> ScanIterations]

\* C13 as stated: every workflow, the file selection included, eventually
\* returns to the main menu, also when the key source delivers no event.
C13_EveryWorkflowReturns == (pc \in Workflows) ~> (pc = "menu")

\* C13: the message dialog returns to the main menu after exactly 30 frames,
\* transmitting after at most 100 and scanning after at most 200; each of their
\* iterations counts one frame or returns, and one is always possible without a
\* key event, so a process that keeps running leaves them. The file selection is left exactly by select, which starts
\* transmitting, and by back, which returns to the main menu; without a key
\* event it stays.
C13_WorkflowsAreBounded ==
    /\ [](pc \in DOMAIN Budget => frame < Budget[pc])
    /\ [][(pc \in DOMAIN Budget)
            => ((pc' = pc /\ frame' = frame + 1) \/ pc' = "menu")]_vars
    /\ [][pc = "message" => (pc' = "menu" <=> frame + 1 = MessageFrames)]_vars
    /\ [][(pc \in {"transmit", "scan"})
            => (pc' = "menu" <=> (key' = "back" \/ frame + 1 = Budget[pc]))]_vars
    /\ [](pc = "message" => ENABLED MessageFrame)
    /\ [](pc = "transmit" => ENABLED (TransmitFrame /\ key' = NoKey))
    /\ [](pc = "scan" => ENABLED (ScanFrame /\ key' = NoKey))
    /\ [](pc = "file_select" => ENABLED (FileSelectMove /\ key' = NoKey))
    /\ [][pc = "file_select"
            => /\ key' = "select" <=> pc' = "transmit"
               /\ key' = "back" <=> pc' = "menu"
               /\ key' \notin {"select", "back"} <=> pc' = "file_select"]_vars

\* a transmission has run out its 100 frames with no key event and returned
C13_Witness ==
    /\ pc = "menu"
    /\ Logged("FM transmission stopped")
    /\ key = NoKey
    /\ keys = 2
    /\ hw.play = 1

\* C14: with the FM handle present, a transmission assigns the frequency and
\* calls play in its first frame only, before that frame's poll, so at most once;
\* it calls stop exactly once, in the step that ends the loop, whether back or
\* the 100th frame ends it. With the handle absent no FM call is ever made.
C14_FMCallsOncePerRun ==
    /\ [](fm # "handle" => hw.setfreq = 0 /\ hw.play = 0 /\ hw.stop = 0)
    /\ [](hw.play <= hw.setfreq /\ hw.setfreq <= 1 /\ hw.stop <= 1)
    /\ [](pc = "transmit"
            => /\ hw.stop = 0
               /\ hw.setfreq = IF fm = "handle" /\ frame > 0 THEN 1 ELSE 0)
    /\ [][(pc = "transmit" /\ frame > 0)
            => hw'.setfreq = hw.setfreq /\ hw'.play = hw.play]_vars
    /\ [][(pc = "transmit" /\ frame = 0 /\ fm = "handle")
            => hw'.setfreq = 1 /\ (faults' = faults => hw'.play = 1)]_vars
    /\ [][(pc = "transmit" /\ fm = "handle")
            => /\ hw'.stop = 1 <=> pc' = "menu"
               /\ pc' = "menu" <=> (key' = "back" \/ frame + 1 = TransmitFrames)]_vars

\* a transmission that played has been ended by back, and stopped
C14_Witness ==
    /\ pc = "menu"
    /\ fm = "handle"
    /\ key = "back"
    /\ faults = 0
    /\ hw = [NoCalls EXCEPT !.setfreq = 1, !.play = 1, !.stop = 1]

\* the entries the step has appended to the log
NewEntries == SubSeq(appended', Len(appended) + 1, Len(appended'))

\* some entry of entries has the text
Among(entries, text) == \E i \in 1..Len(entries) : entries[i].text = text

\* C15: a step of a transmission in which an FM call (the frequency assignment,
\* play or stop) raises appends an "FM TX error:" entry to the log; the loop
\* goes on to its budget or to back, and the step that ends it logs
\* "FM transmission stopped" and returns to the main menu.
C15_FMExceptionsAreLogged ==
    /\ [][(pc = "transmit" /\ faults' > faults)
            => Among(NewEntries, "FM TX error:")]_vars
    /\ [][pc = "transmit"
            => /\ pc' = "menu" <=> (key' = "back" \/ frame + 1 = TransmitFrames)
               /\ pc' = "menu" <=> Among(NewEntries, "FM transmission stopped")
               /\ pc' \in {"menu", "transmit"}]_vars

\* C16: a rawRecv that raises in one iteration of a scan does not end the
\* loop, which still ends only by back or with the 200th iteration; the buffer
\* keeps what it held and grows by the later bits, so it always holds exactly
\* the bits the successful calls returned, and that number is the count logged
\* when the scan completes.
C16_FailedReceiveIsSkipped ==
    /\ [](pc = "scan" => Len(scan_data) = hw.bits /\ hw.recv = frame)
    /\ [][pc = "scan"
            => /\ pc' = "menu" <=> (key' = "back" \/ frame + 1 = ScanIterations)
               /\ pc' \in {"menu", "scan"}
               /\ hw'.recv = hw.recv + 1
               /\ hw'.recvfail > hw.recvfail => hw'.bits = hw.bits
               /\ pc' = "scan"
                    => /\ SubSeq(scan_data', 1, Len(scan_data)) = scan_data
                       /\ Len(scan_data') = hw'.bits
               /\ pc' = "menu"
                    => /\ LastEntry(console_lines').text = "Scan complete: bits captured"
                       /\ LastEntry(console_lines').arg = <<hw'.bits>>]_vars

\* a scan has run its 200 iterations; one rawRecv raised, the others returned
\* two bits each, and 398 bits were logged
C16_Witness ==
    /\ pc = "menu"
    /\ hw.recv = ScanIterations
    /\ hw.recvfail = 1
    /\ hw.bits = 398
    /\ LastEntry(console_lines).arg = <<398>>

\* the step in which rf_scanner, the handle present, starts
ScannerStarts == Among(NewEntries, "Starting RF scanner")

\* C17 as stated: every run of rf_scanner with the handle present calls rst
\* exactly once and then setupRawRecieve exactly once.
C17_ResetThenArmAlways ==
    [][ScannerStarts => hw'.rst = 1 /\ hw'.arm = 1]_vars

\* C17: a run of rf_scanner with the handle present calls rst exactly once and
\* then setupRawRecieve exactly once if rst returned, and not at all if rst
\* raised; both come before the first rawRecv. The loop is entered only if
\* neither raised; rawRecv is then called once in each iteration, and never
\* after back has ended the loop or after rst or setupRawRecieve has raised.
C17_ResetArmReceiveInOrder ==
    /\ [][ScannerStarts
            => /\ hw'.rst = 1
               /\ hw'.arm = 1 - hw'.rstfail
               /\ hw'.recv = 0
               /\ pc' = "scan" <=> faults' = faults
               /\ pc' # "scan"
                    => pc' = "menu" /\ Among(NewEntries, "Scanner error:")]_vars
    /\ [](pc = "scan" => hw.rst = 1 /\ hw.arm = 1 /\ hw.recv = frame)
    /\ [][pc = "scan"
            => hw'.recv = hw.recv + 1 /\ hw'.rst = 1 /\ hw'.arm = 1]_vars
    /\ [][pc # "scan" => hw'.recv \in {hw.recv, 0}]_vars

\* back has ended a scan after its second rawRecv
C17_Witness ==
    /\ pc = "menu"
    /\ key = "back"
    /\ hw.rst = 1
    /\ hw.arm = 1
    /\ hw.recv = 2

FrameStep ==
    \/ pc \in {"splash", "file_select", "transmit", "scan", "message"}
    \/ pc = "menu" /\ running

\* C19: blink_state starts false; every frame, with the display or without it,
\* draws its content and then toggles blink_state, and nothing else changes it.
C19_EveryFrameIsRendered ==
    /\ blink_state = FALSE
    /\ [][FrameStep => (rendered' # rendered /\ blink_state' = ~blink_state)]_vars
    /\ [][~FrameStep => blink_state' = blink_state]_vars

\* C20: an iteration of the main loop whose poll returns nothing or back
\* leaves the selected index, the running flag, the menu and the console log
\* as they are; and from select to the return to the main menu no step of a
\* workflow changes the selected index or the menu.
C20_IdlePollAndWorkflowsKeepMenu ==
    /\ [][(pc = "menu" /\ running /\ key' \in {NoKey, "back"})
            => /\ selected_item' = selected_item
               /\ running' = running
               /\ main_menu' = main_menu
               /\ console_lines' = console_lines
               /\ pc' = "menu"]_vars
    /\ [][(pc \in Workflows \/ pc' \in Workflows \/ (pc = "menu" /\ key' = "select"))
            => selected_item' = selected_item /\ main_menu' = main_menu]_vars

\* with RF Scanner selected, a scan has been ended by back and the main loop
\* has polled no key since
C20_Witness ==
    /\ pc = "menu"
    /\ running
    /\ selected_item = 1
    /\ hw.recv = 1
    /\ key = NoKey
    /\ keys = 3

====
